---- MODULE Spec2Model ----
(***************************************************************************)
(* fastapi-weather: users store a location and weather preferences, and    *)
(* ask for the current weather or for the day of a 5-day / 3-hour forecast *)
(* that suits their preferences best.                                      *)
(*                                                                         *)
(* Conventions of the model                                                *)
(*   - A Python Optional value is a sequence: None is << >>, a value v is  *)
(*     << v >>.  `x is None` is x = None, `x is True` is x = Some(TRUE).   *)
(*   - Scores are kept in half points, so that the code's 7.5 is the       *)
(*     integer 15, its 10 is 20 and its 3 is 6.                            *)
(*   - str(weather_id) is a sequence of one-character strings.             *)
(*   - A datetime is << day, hour >>; day 0 is the UTC day of the first    *)
(*     sample of a forecast feed.                                          *)
(***************************************************************************)
EXTENDS Integers, Sequences, FiniteSets, TLC

VARIABLES
    user,                 \* table user: the username of user id i at index i
    weather_preferences,  \* table user_weather_preferences: row i belongs to user id i
    patches,              \* number of PATCH /preferences requests handled so far
    request,              \* the request the API handled last
    response,             \* its HTTP response
    provider_call,        \* the requests.get the handler made for it, if any
    provider_response,    \* what OpenWeatherMap answered, and the server's date
    forecasts,            \* pick_best_forecast_for_user: its argument `forecasts`
    user_prefs,           \* pick_best_forecast_for_user: user.weather_preferences
    score_steps,          \* per forecast: the local `score` after each of the three blocks
    forecasts_score,      \* pick_best_forecast_for_user: the dict forecasts_score, as items
    best_forecast,        \* pick_best_forecast_for_user: its return value
    pc                    \* "idle" in the API; "call" and "return" around a bare scorer call

vars == << user, weather_preferences, patches, request, response, provider_call, provider_response,
           forecasts, user_prefs, score_steps, forecasts_score, best_forecast, pc >>

-----------------------------------------------------------------------------
(* Optional values *)

None == << >>

Some(v) == << v >>

-----------------------------------------------------------------------------
(* models.UserWeatherPreferences and schemas.BaseUserWeatherPreferences *)

Fields == { "latitude", "longitude", "temp_min", "temp_max",
            "likes_rain", "likes_sun", "likes_wind", "likes_fog", "likes_snow" }

\* A row as create_user inserts it: every column NULL.
NewPreferences == [ f \in Fields |-> None ]

-----------------------------------------------------------------------------
(* pick_best_forecast_for_user: the score of one forecast *)

\* Half points added or removed by each temperature bound (the code's 7.5).
TempWeight == 15

\* Half points of the weather-condition preference (the code's 10).
CondWeight == 20

\* Half points of the wind preference (the code's 3).
WindWeight == 6

\* Wind speed (m/s) above which a forecast is windy.
WindThreshold == 6

Digit(d) == << "0", "1", "2", "3", "4", "5", "6", "7", "8", "9" >>[d + 1]

\* str(n) of a non-negative int.
RECURSIVE Str(_)
Str(n) == IF n < 10 THEN << Digit(n) >> ELSE Str(n \div 10) \o << Digit(n % 10) >>

\* The temperature block with the max check made whatever the min check gave.
TempScoreNoShortCircuit(forecast, prefs) ==
    LET temp == forecast.current_temp
        s1 == IF prefs.temp_min # None
              THEN IF temp < prefs.temp_min[1] THEN 0 - TempWeight ELSE TempWeight
              ELSE 0
    IN  IF prefs.temp_max # None
        THEN IF temp > prefs.temp_max[1] THEN s1 - TempWeight ELSE s1 + TempWeight
        ELSE s1

\* The temperature block: the min check, then the max check when the score is
\* not negative.
TempScore(forecast, prefs) ==
    LET temp == forecast.current_temp
        s1 == IF prefs.temp_min # None
              THEN IF temp < prefs.temp_min[1] THEN 0 - TempWeight ELSE TempWeight
              ELSE 0
    IN  IF s1 >= 0
        THEN IF prefs.temp_max # None
             THEN IF temp > prefs.temp_max[1] THEN s1 - TempWeight ELSE s1 + TempWeight
             ELSE s1
        ELSE s1

\* The weather-condition block, with every 7xx code taken for fog.
ConditionScoreAnySeven(score, forecast, prefs) ==
    LET weather_id == Str(forecast.weather_id)
    IN  IF weather_id[1] \in { "2", "3", "5" }
        THEN IF prefs.likes_rain = Some(TRUE) THEN score + CondWeight
             ELSE IF prefs.likes_rain = Some(FALSE) THEN score - CondWeight
             ELSE score
        ELSE IF weather_id[1] = "8"
        THEN LET is_clear == weather_id \in { <<"8","0","0">>, <<"8","0","1">> }
                 is_cloudy == weather_id \in { <<"8","0","2">>, <<"8","0","3">>, <<"8","0","4">> }
                 s1 == IF prefs.likes_sun = Some(TRUE)
                       THEN IF is_clear THEN score + CondWeight
                            ELSE IF is_cloudy THEN score - CondWeight
                            ELSE score
                       ELSE score
             IN  IF prefs.likes_sun = Some(FALSE)
                 THEN IF is_clear THEN s1 - CondWeight
                      ELSE IF is_cloudy THEN s1 + CondWeight
                      ELSE s1
                 ELSE s1
        ELSE IF weather_id[1] = "6"
        THEN LET s1 == IF prefs.likes_snow = Some(TRUE) THEN score + CondWeight ELSE score
             IN  IF prefs.likes_snow = Some(FALSE) THEN s1 - CondWeight ELSE s1
        ELSE IF weather_id[1] = "7"
        THEN LET s1 == IF prefs.likes_fog = Some(TRUE) THEN score + CondWeight ELSE score
             IN  IF prefs.likes_fog = Some(FALSE) THEN s1 - CondWeight ELSE s1
        ELSE score

\* The weather-condition block: rain, else sun and clouds, else snow, else fog.
ConditionScore(score, forecast, prefs) ==
    LET weather_id == Str(forecast.weather_id)
    IN  IF weather_id[1] \in { "2", "3", "5" }
        THEN IF prefs.likes_rain = Some(TRUE) THEN score + CondWeight
             ELSE IF prefs.likes_rain = Some(FALSE) THEN score - CondWeight
             ELSE score
        ELSE IF weather_id[1] = "8"
        THEN LET is_clear == weather_id \in { <<"8","0","0">>, <<"8","0","1">> }
                 is_cloudy == weather_id \in { <<"8","0","2">>, <<"8","0","3">>, <<"8","0","4">> }
                 s1 == IF prefs.likes_sun = Some(TRUE)
                       THEN IF is_clear THEN score + CondWeight
                            ELSE IF is_cloudy THEN score - CondWeight
                            ELSE score
                       ELSE score
             IN  IF prefs.likes_sun = Some(FALSE)
                 THEN IF is_clear THEN s1 - CondWeight
                      ELSE IF is_cloudy THEN s1 + CondWeight
                      ELSE s1
                 ELSE s1
        ELSE IF weather_id[1] = "6"
        THEN LET s1 == IF prefs.likes_snow = Some(TRUE) THEN score + CondWeight ELSE score
             IN  IF prefs.likes_snow = Some(FALSE) THEN s1 - CondWeight ELSE s1
        ELSE IF weather_id \in { <<"7","0","1">>, <<"7","1","1">>, <<"7","2","1">>, <<"7","4","1">> }
        THEN LET s1 == IF prefs.likes_fog = Some(TRUE) THEN score + CondWeight ELSE score
             IN  IF prefs.likes_fog = Some(FALSE) THEN s1 - CondWeight ELSE s1
        ELSE score

\* The wind block, with a calm forecast left unscored.
WindScoreWindyOnly(score, forecast, prefs) ==
    IF forecast.wind_speed > WindThreshold
    THEN IF prefs.likes_wind = Some(TRUE) THEN score + WindWeight
         ELSE IF prefs.likes_wind = Some(FALSE) THEN score - WindWeight
         ELSE score
    ELSE score

\* The wind block.
WindScore(score, forecast, prefs) ==
    IF forecast.wind_speed > WindThreshold
    THEN IF prefs.likes_wind = Some(TRUE) THEN score + WindWeight
         ELSE IF prefs.likes_wind = Some(FALSE) THEN score - WindWeight
         ELSE score
    ELSE IF prefs.likes_wind = Some(TRUE) THEN score - WindWeight
         ELSE IF prefs.likes_wind = Some(FALSE) THEN score + WindWeight
         ELSE score

\* One pass of the loop body: the local `score` after each block.
ScoreSteps(forecast, prefs) ==
    LET t == TempScore(forecast, prefs)
        c == ConditionScore(t, forecast, prefs)
        w == WindScore(c, forecast, prefs)
    IN  << t, c, w >>

-----------------------------------------------------------------------------
(* pick_best_forecast_for_user: the choice *)

\* x put into a sequence sorted by descending score, behind the items of equal score.
RECURSIVE InsertDesc(_, _)
InsertDesc(x, s) ==
    IF s = << >> THEN << x >>
    ELSE IF Head(s)[2] >= x[2] THEN << Head(s) >> \o InsertDesc(x, Tail(s))
    ELSE << x >> \o s

\* x put in front of the items of equal score.
RECURSIVE InsertDescFirst(_, _)
InsertDescFirst(x, s) ==
    IF s = << >> THEN << x >>
    ELSE IF Head(s)[2] > x[2] THEN << Head(s) >> \o InsertDescFirst(x, Tail(s))
    ELSE << x >> \o s

\* A descending sort that reverses the order of items of equal score.
RECURSIVE SortedUnstable(_)
SortedUnstable(items) ==
    IF items = << >> THEN << >>
    ELSE InsertDescFirst(items[Len(items)], SortedUnstable(SubSeq(items, 1, Len(items) - 1)))

\* sorted(items, key=lambda x: x[1], reverse=True): stable, items of equal score
\* keep their order.
RECURSIVE Sorted(_)
Sorted(items) ==
    IF items = << >> THEN << >>
    ELSE InsertDesc(items[Len(items)], Sorted(SubSeq(items, 1, Len(items) - 1)))

\* The items of the dict forecasts_score: << index, score >>, index from 0, in
\* insertion order.
ScoreItems(fs, prefs) == [ i \in 1..Len(fs) |-> << i - 1, ScoreSteps(fs[i], prefs)[3] >> ]

\* best_forcasts: sorted_forecasts[0], then every leading item with the best score.
RECURSIVE LeadingBest(_, _)
LeadingBest(sorted, best_score) ==
    IF sorted = << >> \/ Head(sorted)[2] # best_score THEN << >>
    ELSE << Head(sorted) >> \o LeadingBest(Tail(sorted), best_score)

BestForecasts(sorted) == << sorted[1] >> \o LeadingBest(sorted, sorted[1][2])

\* The forecast returned, for a non-empty list (an empty one raises IndexError).
PickBest(fs, prefs) ==
    LET sorted_forecasts == Sorted(ScoreItems(fs, prefs))
    IN  fs[BestForecasts(sorted_forecasts)[1][1] + 1]

-----------------------------------------------------------------------------
(* Inputs of the scorer *)

\* Longest candidate list given to a bare scorer call.
MaxForecasts == 3

\* schemas.WeatherForecast, the fields the program reads (feels_like, image_url,
\* description, humidity, visibility and pressure are only passed through).
Forecast(weather_id, current_temp, wind_speed, dt) ==
    [ weather_id |-> weather_id, current_temp |-> current_temp,
      wind_speed |-> wind_speed, dt |-> dt ]

\* OpenWeatherMap condition codes: every family, and each code the scorer names
\* (the provider's 8xx codes are 800 to 804).
WeatherIds == { 200, 300, 500, 600, 701, 711, 721, 731, 741, 751, 781,
                800, 801, 802, 803, 804 }

\* Temperatures below, at, between and above the bounds 15 and 25.
Temps == { 10, 15, 20, 25, 30 }

Winds == { 4, 6, 8 }

PrefTemps == { None, Some(15), Some(25) }

Tri == { None, Some(TRUE), Some(FALSE) }

\* A preference row with the location set.
Prefs(temp_min, temp_max, rain, sun, wind, fog, snow) ==
    [ latitude |-> Some(50), longitude |-> Some(20),
      temp_min |-> temp_min, temp_max |-> temp_max,
      likes_rain |-> rain, likes_sun |-> sun, likes_wind |-> wind,
      likes_fog |-> fog, likes_snow |-> snow ]

ListSamples == { [ weather_id |-> c, current_temp |-> t, wind_speed |-> w ] :
                   c \in { 500, 800 }, t \in { 20, 30 }, w \in { 2, 8 } }

ListPrefs ==
    { Prefs(lo, hi, r, s, w, None, None) :
        lo \in { None, Some(15) }, hi \in { None, Some(25) },
        r \in { None, Some(FALSE) }, s \in { None, Some(TRUE) },
        w \in { None, Some(TRUE) } }

\* The preferences of the scoring scenario: 15 to 25 degrees, no rain, sun.
ScenarioRow == Prefs(Some(15), Some(25), Some(FALSE), Some(TRUE), None, None, None)

\* The lists of n candidates, one per day from day 0 on, under the list preferences.
ListInputsOfLen(n) ==
    { [ forecasts |-> [ i \in 1..n |->
                          Forecast(l[i].weather_id, l[i].current_temp, l[i].wind_speed,
                                   << i - 1, 12 >>) ],
        prefs |-> p ] :
        l \in [ 1..n -> ListSamples ], p \in ListPrefs }

NoRequest == [ op |-> "none", user_id |-> 0, payload |-> None ]

NoResponse == [ status |-> 0, body |-> None ]

NoProviderResponse ==
    [ status_code |-> 0, cod |-> None, data |-> None, list |-> None, date_today |-> 0 ]

\* A call of pick_best_forecast_for_user about to be made.
InitScore ==
    /\ user = << >>
    /\ weather_preferences = << >>
    /\ patches = 0
    /\ request = NoRequest
    /\ response = NoResponse
    /\ provider_call = None
    /\ provider_response = NoProviderResponse
    /\ \/ \E c \in WeatherIds, t \in Temps, w \in Winds,
             lo \in PrefTemps, hi \in PrefTemps,
             r \in Tri, s \in Tri, wi \in Tri, f \in Tri, n \in Tri :
               \* one candidate of every kind, under every preference row
               /\ forecasts = << Forecast(c, t, w, << 0, 12 >>) >>
               /\ user_prefs = Prefs(lo, hi, r, s, wi, f, n)
       \/ \E n \in 2..MaxForecasts : \E in \in ListInputsOfLen(n) :
               /\ forecasts = in.forecasts
               /\ user_prefs = in.prefs
    /\ score_steps = << >>
    /\ forecasts_score = << >>
    /\ best_forecast = None
    /\ pc = "call"

\* pick_best_forecast_for_user(forecasts, user).
pick_best_forecast_for_user ==
    /\ pc = "call"
    /\ score_steps' = [ i \in 1..Len(forecasts) |-> ScoreSteps(forecasts[i], user_prefs) ]
    /\ forecasts_score' = ScoreItems(forecasts, user_prefs)
    /\ best_forecast' = Some(PickBest(forecasts, user_prefs))
    /\ pc' = "return"
    /\ UNCHANGED << user, weather_preferences, patches, request, response,
                    provider_call, provider_response, forecasts, user_prefs >>

NextScore == pick_best_forecast_for_user

SpecScore == InitScore /\ [][NextScore]_vars

-----------------------------------------------------------------------------
(* The HTTP API: requests and responses *)

Usernames == { "anna", "boris" }

\* The user ids a request may name: every id a user can have, and one more.
UserIdInputs == 1..(Cardinality(Usernames) + 1)

\* Most PATCH /preferences requests in one run.
MaxPatches == 2

Request(op, user_id, payload) == [ op |-> op, user_id |-> user_id, payload |-> payload ]

Response(status, body) == [ status |-> status, body |-> body ]

\* selectors.get_user: the user's id, or None when no row has it (the callers
\* pass raise_exception=True and answer 404 then).
get_user(user_id) == IF user_id \in 1..Len(user) THEN Some(user_id) ELSE None

\* The request ends before pick_best_forecast_for_user is called.
NoScorerCall ==
    /\ forecasts' = << >>
    /\ user_prefs' = None
    /\ score_steps' = << >>
    /\ forecasts_score' = << >>
    /\ best_forecast' = None

\* The request ends before requests.get is called.
NoProviderCall ==
    /\ provider_call' = None
    /\ provider_response' = NoProviderResponse

\* POST /users: main.register and services.create_user.
register(username) ==
    /\ pc = "idle"
    /\ request' = Request("register", 0, Some(username))
    /\ IF \E i \in 1..Len(user) : user[i] = username
       THEN /\ response' = Response(409, None)
            /\ UNCHANGED << user, weather_preferences >>
       ELSE /\ user' = Append(user, username)
            /\ weather_preferences' = Append(weather_preferences, NewPreferences)
            /\ response' = Response(201, Some(Len(user) + 1))
    /\ NoProviderCall
    /\ NoScorerCall
    /\ UNCHANGED << patches, pc >>

-----------------------------------------------------------------------------
(* PATCH /preferences/{user_id} *)

\* Bounds of temp_min and temp_max: Field(ge=-60, le=60).
TempLowest == -60

TempHighest == 60

\* schemas.UserWeatherPreferencesUpdate parsed from a JSON body: every field,
\* None where the body has no such key, and model_fields_set, the keys it has.
Payload(values, fields_set) == [ values |-> values, fields_set |-> fields_set ]

\* Field(ge=-60, le=60) on one temperature field.
TempInRange(v) == v = None \/ (v[1] >= TempLowest /\ v[1] <= TempHighest)

\* BaseUserWeatherPreferences.temp_max_must_be_greater_than_temp_min: it runs when
\* the body has temp_max, and sees the temp_min of the same body only.
temp_max_must_be_greater_than_temp_min(payload) ==
    LET temp_max == payload.values.temp_max
        temp_min == payload.values.temp_min
    IN  "temp_max" \in payload.fields_set =>
            ~ (temp_max # None /\ temp_min # None /\ temp_max[1] < temp_min[1])

\* The body passes pydantic's validation (else FastAPI answers 422).
ValidPayload(payload) ==
    /\ TempInRange(payload.values.temp_min)
    /\ TempInRange(payload.values.temp_max)
    /\ temp_max_must_be_greater_than_temp_min(payload)

\* preferences.model_dump(): every field, set or not.
model_dump_all(payload) == { << f, payload.values[f] >> : f \in Fields }

\* preferences.model_dump(exclude_unset=True): a dict, as its set of items.
model_dump(payload) == { << f, payload.values[f] >> : f \in payload.fields_set }

\* ModelUpdateMixin.update(**kwargs): setattr for each key that is an attribute.
ModelUpdate(self, kwargs) ==
    [ key \in DOMAIN self |->
        IF \E kv \in kwargs : kv[1] = key
        THEN (CHOOSE kv \in kwargs : kv[1] = key)[2]
        ELSE self[key] ]

\* services.update_weather_preferences, after get_user found the user.
update_weather_preferences(user_id, payload) ==
    [ weather_preferences EXCEPT
        ![user_id] = ModelUpdate(weather_preferences[user_id], model_dump(payload)) ]

\* The values a JSON body may give each field: null, and values in range.
FieldValues(f) ==
    IF f = "latitude" THEN { None, Some(50) }
    ELSE IF f = "longitude" THEN { None, Some(20) }
    ELSE IF f \in { "temp_min", "temp_max" } THEN { None, Some(10), Some(20) }
    ELSE { None, Some(TRUE) }

\* The payloads parsed from the bodies that have the one key f.
SinglePayloads(f) ==
    { Payload([ NewPreferences EXCEPT ![f] = v ], { f }) : v \in FieldValues(f) }

\* The payloads parsed from the bodies that have the two keys f and g, neither null.
PairPayloads(f, g) ==
    { Payload([ NewPreferences EXCEPT ![f] = v, ![g] = w ], { f, g }) :
        v \in FieldValues(f) \ { None }, w \in FieldValues(g) \ { None } }

\* The bodies of the model: the empty one, each single key, three pairs of keys,
\* and a temperature out of range.
Payloads ==
    { Payload(NewPreferences, {}),
      Payload([ NewPreferences EXCEPT !["temp_max"] = Some(61) ], { "temp_max" }) }
    \cup UNION { SinglePayloads(f) : f \in Fields }
    \cup PairPayloads("temp_min", "temp_max")
    \cup PairPayloads("latitude", "longitude")
    \cup PairPayloads("likes_rain", "likes_sun")

\* main.update_user_weather_preferences.
update_user_weather_preferences(user_id, payload) ==
    /\ pc = "idle"
    /\ patches < MaxPatches
    /\ patches' = patches + 1
    /\ request' = Request("patch", user_id, Some(payload))
    /\ IF ~ ValidPayload(payload)
       THEN /\ response' = Response(422, None)
            /\ UNCHANGED weather_preferences
       ELSE IF get_user(user_id) = None
       THEN /\ response' = Response(404, None)
            /\ UNCHANGED weather_preferences
       ELSE /\ weather_preferences' = update_weather_preferences(user_id, payload)
            /\ response' = Response(200, Some(weather_preferences'[user_id]))
    /\ NoProviderCall
    /\ NoScorerCall
    /\ UNCHANGED << user, pc >>

-----------------------------------------------------------------------------
(* OpenWeatherMap payloads *)

\* The keys of a weather item that the program reads.
RawKeys == { "main", "weather", "wind", "visibility", "dt", "dt_txt" }

\* The condition code, temperature and wind of the k-th item of a feed.
ClimateIds == << 800, 500, 802, 600, 701, 731, 300 >>

ClimateId(k) == ClimateIds[(k % Len(ClimateIds)) + 1]

ClimateTemp(k) == 10 + 5 * (k % 5)

ClimateWind(k) == 2 * (k % 6)

\* The weather item of the hour t (hours since 00:00 of day 0), k-th of its feed.
RawSample(t, k) ==
    [ keys |-> RawKeys,
      weather |-> << [ id |-> ClimateId(k) ] >>,
      main |-> [ temp |-> ClimateTemp(k) ],
      wind |-> [ speed |-> ClimateWind(k) ],
      dt |-> << t \div 24, t % 24 >>,
      dt_txt |-> << t \div 24, t % 24 >> ]

\* A feed: n items three hours apart, the first at hour h0 of day 0.
Feed(h0, n) == [ k \in 1..n |-> RawSample(h0 + 3 * (k - 1), k) ]

\* A malformed item: without its dt_txt, without its main, or with an empty
\* weather list.
Malformed(sample, kind) ==
    IF kind = "dt_txt" THEN [ sample EXCEPT !.keys = @ \ { "dt_txt" } ]
    ELSE IF kind = "main" THEN [ sample EXCEPT !.keys = @ \ { "main" } ]
    ELSE [ sample EXCEPT !.weather = << >> ]

MalformedKinds == { "dt_txt", "main", "weather" }

\* utils.extract_weather_data succeeds: no KeyError, no IndexError.
Extractable(data) ==
    /\ { "main", "weather", "wind", "visibility", "dt" } \subseteq data.keys
    /\ data.weather # << >>

\* utils.extract_weather_data(data) and schemas.WeatherForecast(**weather_data).
extract_weather_data(data) ==
    Forecast(data.weather[1].id, data.main.temp, data.wind.speed, data.dt)

\* int(response.get("cod", 0)).
CodOf(pr) == IF pr.cod = None THEN 0 ELSE pr.cod[1]

ProviderResponse(status_code, cod, data, list, date_today) ==
    [ status_code |-> status_code, cod |-> cod, data |-> data, list |-> list,
      date_today |-> date_today ]

-----------------------------------------------------------------------------
(* GET /weather/{user_id} and GET /forecast/custom/{user_id} *)

\* The limit of the reduced list: `if len(forecasts_data) >= 5`.
MaxDays == 5

\* The hour of the one forecast kept per day.
MiddayHour == 12

\* The location check, with `and` for `or`.
LocationMissingBoth(prefs) == prefs.latitude = None /\ prefs.longitude = None

\* `if lat is None or lon is None`.
LocationMissing(prefs) == prefs.latitude = None \/ prefs.longitude = None

\* The filter of the loop, without the test of today's date.
SkippedAnyDate(index, weather_forecast, date_today) ==
    /\ index # 1
    /\ weather_forecast.dt_txt[2] # MiddayHour

\* The item at `index` (from 1 here, from 0 in the code) is skipped by `continue`.
Skipped(index, weather_forecast, date_today) ==
    /\ index # 1
    /\ \/ weather_forecast.dt_txt[2] # MiddayHour
       \/ weather_forecast.dt_txt[1] = date_today

\* The loop over response["list"] from `index` on, with forecasts_data so far:
\* status 200 and the reduced list, 502 when extract_weather_data raises the
\* OpenWeather error, 500 when reading dt_txt raises a KeyError nobody catches.
RECURSIVE ReduceLoop(_, _, _, _)
ReduceLoop(list, index, forecasts_data, date_today) ==
    IF index > Len(list) THEN [ status |-> 200, forecasts_data |-> forecasts_data ]
    ELSE IF index # 1 /\ "dt_txt" \notin list[index].keys
    THEN [ status |-> 500, forecasts_data |-> forecasts_data ]
    ELSE IF Skipped(index, list[index], date_today)
    THEN ReduceLoop(list, index + 1, forecasts_data, date_today)
    ELSE IF ~ Extractable(list[index])
    THEN [ status |-> 502, forecasts_data |-> forecasts_data ]
    ELSE LET appended == Append(forecasts_data, extract_weather_data(list[index]))
         IN  IF Len(appended) >= MaxDays
             THEN [ status |-> 200, forecasts_data |-> appended ]
             ELSE ReduceLoop(list, index + 1, appended, date_today)

\* get_5_day_weather_for_user from the provider's answer on, up to the call of
\* pick_best_forecast_for_user.
ForecastOutcome(pr) ==
    IF pr.status_code # 200 THEN [ status |-> 502, forecasts_data |-> << >> ]
    ELSE IF CodOf(pr) # 200 THEN [ status |-> 502, forecasts_data |-> << >> ]
    ELSE IF pr.list = None \/ pr.list = Some(<< >>)
    THEN [ status |-> 502, forecasts_data |-> << >> ]
    ELSE ReduceLoop(pr.list[1], 1, << >>, pr.date_today)

\* The requests.get of a handler: the URL and the params lat and lon it sends.
ProviderCall(url, prefs) ==
    Some([ url |-> url, lat |-> prefs.latitude, lon |-> prefs.longitude ])

\* utils.get_5_day_weather_for_user, answered by the provider with one of `answers`.
get_recommended_forecast(user_id, answers) ==
    /\ pc = "idle"
    /\ request' = Request("forecast", user_id, None)
    /\ IF get_user(user_id) = None
       THEN /\ response' = Response(404, None)
            /\ NoProviderCall
            /\ NoScorerCall
       ELSE IF LocationMissing(weather_preferences[user_id])
       THEN /\ response' = Response(403, None)
            /\ NoProviderCall
            /\ NoScorerCall
       ELSE \E pr \in answers :
            LET prefs == weather_preferences[user_id]
                out == ForecastOutcome(pr)
            IN  /\ provider_call' = ProviderCall("forecast", prefs)
                /\ provider_response' = pr
                /\ IF out.status # 200
                   THEN /\ response' = Response(out.status, None)
                        /\ NoScorerCall
                   ELSE IF out.forecasts_data = << >>
                   THEN \* sorted_forecasts[0] raises an IndexError
                        /\ response' = Response(500, None)
                        /\ NoScorerCall
                   ELSE /\ forecasts' = out.forecasts_data
                        /\ user_prefs' = prefs
                        /\ score_steps' = [ i \in 1..Len(out.forecasts_data) |->
                                              ScoreSteps(out.forecasts_data[i], prefs) ]
                        /\ forecasts_score' = ScoreItems(out.forecasts_data, prefs)
                        /\ best_forecast' = Some(PickBest(out.forecasts_data, prefs))
                        /\ response' = Response(200, best_forecast')
    /\ UNCHANGED << user, weather_preferences, patches, pc >>

\* utils.get_current_weather_for_user, answered by the provider with one of `answers`.
get_current_weather(user_id, answers) ==
    /\ pc = "idle"
    /\ request' = Request("current", user_id, None)
    /\ IF get_user(user_id) = None
       THEN /\ response' = Response(404, None)
            /\ NoProviderCall
       ELSE IF LocationMissing(weather_preferences[user_id])
       THEN /\ response' = Response(403, None)
            /\ NoProviderCall
       ELSE \E pr \in answers :
            /\ provider_call' = ProviderCall("weather", weather_preferences[user_id])
            /\ provider_response' = pr
            /\ IF pr.status_code # 200 \/ CodOf(pr) # 200 \/ ~ Extractable(pr.data[1])
               THEN response' = Response(502, None)
               ELSE response' = Response(200, Some(extract_weather_data(pr.data[1])))
    /\ NoScorerCall
    /\ UNCHANGED << user, weather_preferences, patches, pc >>

-----------------------------------------------------------------------------
(* The API as a whole, with a few provider answers *)

\* Answers to the current-weather call: an HTTP error, an error payload, a good
\* payload and a malformed one.
CurrentAnswers ==
    { ProviderResponse(500, None, Some(RawSample(9, 1)), None, 0),
      ProviderResponse(200, Some(404), Some(RawSample(9, 1)), None, 0),
      ProviderResponse(200, Some(200), Some(RawSample(9, 1)), None, 0),
      ProviderResponse(200, Some(200), Some(Malformed(RawSample(9, 1), "main")), None, 0) }

\* Answers to the forecast call: an HTTP error, an empty list and two feeds.
FewForecastAnswers ==
    { ProviderResponse(500, None, None, None, 0),
      ProviderResponse(200, Some(200), None, Some(<< >>), 0),
      ProviderResponse(200, Some(200), None, Some(Feed(9, 10)), 0),
      ProviderResponse(200, Some(200), None, Some(Feed(9, 40)), 0) }

Init ==
    /\ user = << >>
    /\ weather_preferences = << >>
    /\ patches = 0
    /\ request = NoRequest
    /\ response = NoResponse
    /\ provider_call = None
    /\ provider_response = NoProviderResponse
    /\ forecasts = << >>
    /\ user_prefs = None
    /\ score_steps = << >>
    /\ forecasts_score = << >>
    /\ best_forecast = None
    /\ pc = "idle"

Next ==
    \/ \E username \in Usernames : register(username)
    \/ \E user_id \in UserIdInputs, payload \in Payloads :
          update_user_weather_preferences(user_id, payload)
    \/ \E user_id \in UserIdInputs : get_current_weather(user_id, CurrentAnswers)
    \/ \E user_id \in UserIdInputs : get_recommended_forecast(user_id, FewForecastAnswers)

Spec == Init /\ [][Next]_vars

-----------------------------------------------------------------------------
(* One forecast request, under every provider answer of the model *)

\* Most items in a feed (OpenWeatherMap sends 40: five days, every three hours).
MaxFeedLen == 40

\* The hour of day 0 of a feed's first item.
FeedStartHours == { 0, 9, 12, 21 }

\* The server's date, in days from the UTC date of the feed's first item (the
\* server's clock is local, and the first item may be the next day's first).
DateTodays == { -1, 0, 1 }

\* The feed, and the feed with one of its items malformed.
FeedVariants(feed) ==
    { feed } \cup { [ feed EXCEPT ![k] = Malformed(@, kind) ] :
                      k \in 1..Len(feed), kind \in MalformedKinds }

\* The feeds starting at one of `hours`, whole or with one malformed item.
Feeds(hours) == UNION { FeedVariants(Feed(h0, n)) : h0 \in hours, n \in 1..MaxFeedLen }

\* The provider's answers to the forecast call.
ForecastAnswers(hours) ==
    { ProviderResponse(500, None, None, None, 0),
      ProviderResponse(200, Some(404), None, None, 0),
      ProviderResponse(200, None, None, None, 0),
      ProviderResponse(200, Some(200), None, None, 0),
      ProviderResponse(200, Some(200), None, Some(<< >>), 0) }
    \cup { ProviderResponse(200, Some(200), None, Some(feed), date_today) :
             feed \in Feeds(hours), date_today \in DateTodays }

\* Stored rows of the one user: the scenario's, a second one, a row with no
\* location and a row with a latitude only.
ForecastRows ==
    { ScenarioRow,
      Prefs(Some(20), None, Some(TRUE), Some(FALSE), Some(TRUE), Some(TRUE), Some(FALSE)),
      NewPreferences,
      [ NewPreferences EXCEPT !.latitude = Some(50) ] }

InitForecast ==
    /\ user = << "anna" >>
    /\ weather_preferences \in { << row >> : row \in ForecastRows }
    /\ patches = 0
    /\ request = NoRequest
    /\ response = NoResponse
    /\ provider_call = None
    /\ provider_response = NoProviderResponse
    /\ forecasts = << >>
    /\ user_prefs = None
    /\ score_steps = << >>
    /\ forecasts_score = << >>
    /\ best_forecast = None
    /\ pc = "idle"

NextForecast ==
    /\ request = NoRequest
    /\ \E user_id \in 1..2 : get_recommended_forecast(user_id, ForecastAnswers(FeedStartHours))

SpecForecast == InitForecast /\ [][NextForecast]_vars

-----------------------------------------------------------------------------
(* Properties of the scorer *)

\* The scorer has returned (from a bare call, or inside a forecast request).
Scored == best_forecast # None

ScoreAt(i) == forecasts_score[i][2]

\* C1: the forecast returned is the element of the candidate list at the smallest
\* index among those whose score is the maximum over all candidates; it is a
\* member of the list.
C1_SelectBestEarliestMax ==
    Scored =>
        \E i \in 1..Len(forecasts) :
            /\ best_forecast = Some(forecasts[i])
            /\ \A j \in 1..Len(forecasts) : ScoreAt(j) <= ScoreAt(i)
            /\ \A j \in 1..(i - 1) : ScoreAt(j) < ScoreAt(i)

\* Two candidates tie for the maximum behind a lower first one, and the earlier
\* of the two is returned.
C1_Witness ==
    /\ Scored
    /\ Len(forecasts) = 3
    /\ ScoreAt(1) < ScoreAt(2)
    /\ ScoreAt(2) = ScoreAt(3)
    /\ forecasts[2].wind_speed # forecasts[3].wind_speed
    /\ best_forecast = Some(forecasts[2])

\* The temperature part as the claim words it.
TempPartClaimed(temp, temp_min, temp_max) ==
    LET first == IF temp_min = None THEN 0
                 ELSE IF temp >= temp_min[1] THEN TempWeight ELSE 0 - TempWeight
        second == IF first >= 0 /\ temp_max # None
                  THEN IF temp <= temp_max[1] THEN TempWeight ELSE 0 - TempWeight
                  ELSE 0
    IN  first + second

ScenarioForecasts ==
    << Forecast(800, 20, 2, << 0, 12 >>),
       Forecast(500, 20, 2, << 1, 12 >>),
       Forecast(800, 30, 2, << 2, 12 >>) >>

\* C5: the temperature part of every score is +7.5 / -7.5 / 0 for the minimum,
\* then, only when that is not negative and a maximum is set, +7.5 / -7.5 for the
\* maximum: one of -7.5, 0, +7.5, +15 (never -15); in the scenario A, B, C score
\* 25, 5 and 10 and A is returned.  (Half points: 15 is 7.5.)
C5_TemperaturePart ==
    Scored =>
        /\ \A i \in 1..Len(forecasts) :
              /\ score_steps[i][1] = TempPartClaimed(forecasts[i].current_temp,
                                                     user_prefs.temp_min, user_prefs.temp_max)
              /\ score_steps[i][1] \in { 0 - TempWeight, 0, TempWeight, 2 * TempWeight }
        /\ (forecasts = ScenarioForecasts /\ user_prefs = ScenarioRow) =>
              /\ << ScoreAt(1), ScoreAt(2), ScoreAt(3) >> = << 50, 10, 20 >>
              /\ best_forecast = Some(ScenarioForecasts[1])

\* The scenario has been scored.
C5_Witness ==
    /\ Scored
    /\ forecasts = ScenarioForecasts
    /\ user_prefs = ScenarioRow
    /\ score_steps[3][1] = 0

\* The leading decimal digit of a non-negative code.
RECURSIVE LeadingDigit(_)
LeadingDigit(n) == IF n < 10 THEN n ELSE LeadingDigit(n \div 10)

\* +10, -10 or 0 (in half points) for a liked, disliked or unrated condition.
Liking(pref) ==
    IF pref = Some(TRUE) THEN CondWeight
    ELSE IF pref = Some(FALSE) THEN 0 - CondWeight
    ELSE 0

\* The condition-family part as the claim words it.
CondPartClaimed(code, prefs) ==
    IF LeadingDigit(code) \in { 2, 3, 5 } THEN Liking(prefs.likes_rain)
    ELSE IF LeadingDigit(code) = 8
    THEN IF code \in { 800, 801 } THEN Liking(prefs.likes_sun)
         ELSE IF code \in { 802, 803, 804 } THEN 0 - Liking(prefs.likes_sun)
         ELSE 0
    ELSE IF LeadingDigit(code) = 6 THEN Liking(prefs.likes_snow)
    ELSE IF code \in { 701, 711, 721, 741 } THEN Liking(prefs.likes_fog)
    ELSE 0

\* C6: exactly one condition family applies, the first to match of rain (leading
\* digit 2, 3, 5), sun and clouds (leading digit 8), snow (leading digit 6) and
\* fog (701, 711, 721, 741); it adds +10 or -10 by that one preference, 0 when
\* that preference is unset, and any other code adds 0.
C6_ConditionFamily ==
    Scored =>
        \A i \in 1..Len(forecasts) :
            /\ score_steps[i][2] - score_steps[i][1]
                  = CondPartClaimed(forecasts[i].weather_id, user_prefs)
            /\ score_steps[i][2] - score_steps[i][1] \in { 0 - CondWeight, 0, CondWeight }

\* A 7xx code outside the fog family is scored for a user who rated fog, rain,
\* sun and snow: none of the ratings counts.
C6_Witness ==
    /\ Scored
    /\ forecasts[1].weather_id = 731
    /\ user_prefs.likes_fog = Some(TRUE)
    /\ user_prefs.likes_rain = Some(FALSE)
    /\ user_prefs.likes_sun = Some(TRUE)
    /\ user_prefs.likes_snow = Some(FALSE)
    /\ score_steps[1][2] = score_steps[1][1]

\* i is windy, j is calm, and they agree in temperature and condition.
WindyCalmPair(i, j) ==
    /\ forecasts[i].wind_speed > WindThreshold
    /\ forecasts[j].wind_speed <= WindThreshold
    /\ forecasts[i].current_temp = forecasts[j].current_temp
    /\ forecasts[i].weather_id = forecasts[j].weather_id

\* C7 as stated: for a wind-loving user the windy sample scores 3 more (6 half
\* points) than the calm sample that is equal in every other attribute.
C7_WindyThreeHigher ==
    (Scored /\ user_prefs.likes_wind = Some(TRUE)) =>
        \A i, j \in 1..Len(forecasts) :
            WindyCalmPair(i, j) => ScoreAt(i) - ScoreAt(j) = WindWeight

\* C7 amended: for a wind-loving user the windy sample scores 6 more (12 half
\* points) than the calm sample that is equal in every other attribute: +3
\* against -3.
C7_WindySixHigher ==
    (Scored /\ user_prefs.likes_wind = Some(TRUE)) =>
        \A i, j \in 1..Len(forecasts) :
            WindyCalmPair(i, j) => ScoreAt(i) - ScoreAt(j) = 2 * WindWeight

\* A wind-loving user's list holds a windy and a calm sample that agree otherwise.
C7_Witness ==
    /\ Scored
    /\ user_prefs.likes_wind = Some(TRUE)
    /\ Len(forecasts) = 2
    /\ WindyCalmPair(1, 2)
    /\ forecasts[1].wind_speed = 8

-----------------------------------------------------------------------------
(* Properties of the stored preferences *)

\* C2: in every stored row with temp_min and temp_max both set, temp_max is at
\* least temp_min: an update that would make temp_max < temp_min is rejected.
C2_StoredTempRangeOrdered ==
    \A u \in 1..Len(weather_preferences) :
        LET row == weather_preferences[u]
        IN  (row.temp_min # None /\ row.temp_max # None) => row.temp_max[1] >= row.temp_min[1]

\* The last step was a PATCH /preferences request.
PatchStep == patches' # patches

\* C9: an accepted update overwrites exactly the attributes present in the
\* payload (a present null clears the attribute) and leaves every other attribute
\* and every other user's row unchanged; an update for a user that does not exist
\* answers 404 and changes no row.
C9_PartialUpdateFrame ==
    [][ PatchStep =>
          LET user_id == request'.user_id
              payload == request'.payload[1]
          IN  /\ Len(weather_preferences') = Len(weather_preferences)
              /\ response'.status = 200 =>
                    \A u \in 1..Len(weather_preferences) : \A f \in Fields :
                        weather_preferences'[u][f] =
                            IF u = user_id /\ f \in payload.fields_set
                            THEN payload.values[f]
                            ELSE weather_preferences[u][f]
              /\ response'.status # 200 => weather_preferences' = weather_preferences
              /\ user_id \notin 1..Len(user) => response'.status \in { 404, 422 }
              /\ response'.status = 404 => user_id \notin 1..Len(user)
      ]_vars

\* An accepted update cleared one attribute by an explicit null and kept another
\* one that an earlier update had set, with a second user stored.
C9_Witness ==
    /\ request.op = "patch"
    /\ response.status = 200
    /\ Len(user) = 2
    /\ request.payload[1].fields_set = { "temp_max" }
    /\ request.payload[1].values.temp_max = None
    /\ weather_preferences[request.user_id].temp_max = None
    /\ weather_preferences[request.user_id].temp_min = Some(20)

-----------------------------------------------------------------------------
(* Properties of the weather requests *)

WeatherRequest == request.op \in { "current", "forecast" }

\* C8: the provider is called only for a user that exists and whose stored
\* latitude and longitude are both set; a request for a user that does not exist
\* answers 404 and one with a coordinate unset answers 403, both without a
\* provider call.
C8_ProviderCallNeedsLocation ==
    WeatherRequest =>
        LET found == request.user_id \in 1..Len(user)
            row == weather_preferences[request.user_id]
        IN  /\ provider_call # None =>
                  /\ found
                  /\ row.latitude # None
                  /\ row.longitude # None
                  /\ provider_call[1].lat = row.latitude
                  /\ provider_call[1].lon = row.longitude
            /\ ~ found => (response.status = 404 /\ provider_call = None)
            /\ (found /\ (row.latitude = None \/ row.longitude = None)) =>
                  (response.status = 403 /\ provider_call = None)

\* A forecast request of a user with a latitude and no longitude was refused.
C8_Witness ==
    /\ request.op = "forecast"
    /\ request.user_id \in 1..Len(user)
    /\ weather_preferences[request.user_id].latitude # None
    /\ weather_preferences[request.user_id].longitude = None
    /\ response.status = 403
    /\ provider_call = None

\* The forecast request built its reduced list and scored it.
Reduced == request.op = "forecast" /\ response.status = 200

\* C3: the reduced daily list holds at most one sample per calendar day, the
\* first sample included.
C3_OneSamplePerDay ==
    Reduced =>
        \A i, j \in 1..Len(forecasts) : i < j => forecasts[i].dt[1] # forecasts[j].dt[1]

\* An item behind the first is a midday item of another day than today.
MiddayNotToday(weather_forecast, date_today) ==
    /\ "dt_txt" \in weather_forecast.keys
    /\ weather_forecast.dt_txt[2] = 12
    /\ weather_forecast.dt_txt[1] # date_today

\* The first item, then the midday items of other days than today, in input order.
Candidates(list, date_today) ==
    LET Test(weather_forecast) == MiddayNotToday(weather_forecast, date_today)
    IN  << list[1] >> \o SelectSeq(Tail(list), Test)

\* The first five of them.
ExpectedReduced(list, date_today) ==
    LET all == Candidates(list, date_today)
        kept == SubSeq(all, 1, IF Len(all) < 5 THEN Len(all) ELSE 5)
    IN  [ i \in 1..Len(kept) |->
            [ weather_id |-> kept[i].weather[1].id, current_temp |-> kept[i].main.temp,
              wind_speed |-> kept[i].wind.speed, dt |-> kept[i].dt ] ]

\* C4: the reduced list is the first input sample followed by the input samples
\* behind it whose hour is 12 and whose date is not today's, in input order, cut
\* to 5 entries: never longer than 5, nor than 1 + the number of such samples.
C4_ReducedList ==
    Reduced =>
        LET list == provider_response.list[1]
            date_today == provider_response.date_today
        IN  /\ forecasts = ExpectedReduced(list, date_today)
            /\ Len(forecasts) <= 5
            /\ Len(forecasts) <= Len(Candidates(list, date_today))

\* 40 samples from hour 9 of day 0, today: the hour-9 sample, then the midday
\* samples of days 1 to 4.
C4_Witness ==
    /\ Reduced
    /\ provider_response.list = Some(Feed(9, 40))
    /\ provider_response.date_today = 0
    /\ [ i \in 1..Len(forecasts) |-> forecasts[i].dt ]
          = << << 0, 9 >>, << 1, 12 >>, << 2, 12 >>, << 3, 12 >>, << 4, 12 >> >>

\* The provider's answer is one the claim lists as a failure: a status or a code
\* other than 200, no list or an empty one, or one of the samples kept (the
\* first five candidates) without a required field.
ListedFailure(pr) ==
    \/ pr.status_code # 200
    \/ CodOf(pr) # 200
    \/ pr.list = None
    \/ pr.list = Some(<< >>)
    \/ LET all == Candidates(pr.list[1], pr.date_today)
       IN  \E i \in 1..(IF Len(all) < 5 THEN Len(all) ELSE 5) : ~ Extractable(all[i])

\* C10: a forecast request that called the provider answers 502 on each listed
\* failure, and otherwise gives the scorer at least one candidate and returns
\* exactly one of the candidates.
C10_FailsOrReturnsOne ==
    (request.op = "forecast" /\ provider_call # None) =>
        IF ListedFailure(provider_response)
        THEN response.status = 502 /\ ~ Scored
        ELSE /\ response.status = 200
             /\ forecasts # << >>
             /\ \E i \in 1..Len(forecasts) : best_forecast = Some(forecasts[i])
             /\ response.body = best_forecast

====
